---- MODULE Spec2Model ----
(***************************************************************************)
(* A model of the orbitiq enrichment pipeline:                             *)
(*   src/src/n2yo_client.py   N2YOClient.get_tle (cache, retry, backoff)   *)
(*   src/src/crosswalk.py     normalize_intldes, build_satcat_crosswalk,   *)
(*                            merge_unoosa_with_crosswalk                  *)
(*   src/src/tle_parse.py     parse_tle_fields                             *)
(*   src/src/enrich_unoosa.py enrich_with_n2yo                             *)
(*                                                                         *)
(* Representation.  A Python str is a sequence of TLA+ strings: the lines  *)
(* of a TLE text, the characters of a designator.  A JSON value in memory  *)
(* is a tagged record; a file or response body is a sequence of tokens.    *)
(* A pandas cell is a tagged record (NaN, str, int).  Sleeps are recorded  *)
(* in milliseconds.                                                        *)
(***************************************************************************)
EXTENDS Integers, Sequences, FiniteSets, TLC

VARIABLES
    \* ---- N2YOClient (n2yo_client.py)
    cache,          \* cache_dir: norad_id -> file text, for the files that exist
    pc,             \* position of the caller / of get_tle
    norad_id,       \* argument of the get_tle call in progress (0: none yet)
    attempt_number, \* tenacity's retry_state.attempt_number
    resp,           \* outcome of the last session.get
    result,         \* what the last get_tle call returned or raised
    \* ---- what the environment observes of the client
    calls,          \* get_tle calls made so far
    requests,       \* live network requests issued so far
    callRequests,   \* live network requests issued by the call in progress
    callSleeps,     \* time.sleep / tenacity waits of the call in progress
    callErrors,     \* the exception of each failed attempt of the call in progress
    cacheAtCall,    \* cache when the call in progress started
    fetched,        \* norad_id -> payload returned by the call that wrote its entry
    sinceRequest,   \* sleeps since the last live request
    gapBefore       \* what separated the last live request from the one before it

clientVars == <<cache, pc, norad_id, attempt_number, resp, result, calls, requests,
                callRequests, callSleeps, callErrors, cacheAtCall, fetched,
                sinceRequest, gapBefore>>

VARIABLES
    \* ---- crosswalk.py, and lines 23-25 of enrich_unoosa.py
    xpc,            \* position in build crosswalk -> merge
    str_dtype,      \* the installed pandas has the str dtype (3.x) or not (2.x)
    satcat_df,      \* the catalog table
    unoosa_df,      \* the external table
    satcat_xwalk,   \* what build_satcat_crosswalk returned or raised
    merged          \* what merge_unoosa_with_crosswalk returned or raised

xwalkVars == <<xpc, str_dtype, satcat_df, unoosa_df, satcat_xwalk, merged>>

VARIABLES
    \* ---- tle_parse.py
    tpc,            \* position in parse_tle_fields
    tle_one_line,   \* its argument
    sat,            \* what Satrec.twoline2rv did, when it was called
    feats           \* what it returned or raised

tleVars == <<tpc, tle_one_line, sat, feats>>

VARIABLES
    \* ---- enrich_unoosa.py
    epc,            \* position in enrich_with_n2yo
    api_key,        \* whether N2YO_API_KEY is set
    unique_ids,     \* line 28
    rows,           \* line 33
    tle_df,         \* line 50
    feat_rows,      \* line 53
    enriched        \* what enrich_with_n2yo returned or raised

enrichVars == <<epc, api_key, unique_ids, rows, tle_df, feat_rows, enriched>>

vars == <<clientVars, xwalkVars, tleVars, enrichVars>>

(***************************************************************************)
(* JSON: values, json.dumps, json.loads                                    *)
(***************************************************************************)
JNull == [t |-> "null"]
JStr(s) == [t |-> "str", s |-> s]
JNum(n) == [t |-> "num", n |-> n]
JObj(items) == [t |-> "obj", items |-> items]
JArr(elems) == [t |-> "arr", elems |-> elems]

Punct(c) == [k |-> c]

RECURSIVE Dumps(_)
RECURSIVE DumpsItems(_, _)
RECURSIVE DumpsElems(_, _)
\* json.dumps(value): the text, as a token sequence
Dumps(v) ==
    CASE v.t = "null" -> <<Punct("null")>>
      [] v.t = "str"  -> <<[k |-> "str", s |-> v.s]>>
      [] v.t = "num"  -> <<[k |-> "num", n |-> v.n]>>
      [] v.t = "obj"  -> <<Punct("{")>> \o DumpsItems(v.items, 1) \o <<Punct("}")>>
      [] v.t = "arr"  -> <<Punct("[")>> \o DumpsElems(v.elems, 1) \o <<Punct("]")>>

DumpsItems(items, i) ==
    IF i > Len(items) THEN <<>>
    ELSE <<[k |-> "str", s |-> items[i][1]]>> \o Dumps(items[i][2])
         \o DumpsItems(items, i + 1)

DumpsElems(elems, i) ==
    IF i > Len(elems) THEN <<>>
    ELSE Dumps(elems[i]) \o DumpsElems(elems, i + 1)

ParseFail == [ok |-> FALSE, val |-> JNull, next |-> 0]

RECURSIVE ParseValue(_, _)
RECURSIVE ParseItems(_, _, _)
RECURSIVE ParseElems(_, _, _)
\* the JSON decoder's scan of one value starting at token i
ParseValue(toks, i) ==
    IF i > Len(toks) THEN ParseFail
    ELSE LET tok == toks[i] IN
         CASE tok.k = "null" -> [ok |-> TRUE, val |-> JNull, next |-> i + 1]
           [] tok.k = "str"  -> [ok |-> TRUE, val |-> JStr(tok.s), next |-> i + 1]
           [] tok.k = "num"  -> [ok |-> TRUE, val |-> JNum(tok.n), next |-> i + 1]
           [] tok.k = "{"    -> ParseItems(toks, i + 1, <<>>)
           [] tok.k = "["    -> ParseElems(toks, i + 1, <<>>)
           [] OTHER          -> ParseFail

ParseItems(toks, i, acc) ==
    IF i > Len(toks) THEN ParseFail
    ELSE IF toks[i].k = "}" THEN [ok |-> TRUE, val |-> JObj(acc), next |-> i + 1]
    ELSE IF toks[i].k = "str"
         THEN LET r == ParseValue(toks, i + 1) IN
              IF r.ok THEN ParseItems(toks, r.next, Append(acc, <<toks[i].s, r.val>>))
              ELSE ParseFail
    ELSE ParseFail

ParseElems(toks, i, acc) ==
    IF i > Len(toks) THEN ParseFail
    ELSE IF toks[i].k = "]" THEN [ok |-> TRUE, val |-> JArr(acc), next |-> i + 1]
    ELSE LET r == ParseValue(toks, i) IN
         IF r.ok THEN ParseElems(toks, r.next, Append(acc, r.val))
         ELSE ParseFail

\* json.loads(text) / resp.json(): ok = FALSE stands for the JSONDecodeError
Loads(text) ==
    LET r == ParseValue(text, 1) IN
    IF r.ok /\ r.next = Len(text) + 1 THEN [ok |-> TRUE, val |-> r.val]
    ELSE [ok |-> FALSE, val |-> JNull]

(***************************************************************************)
(* pandas: cells, tables, and the operations crosswalk.py uses.  The       *)
(* source pins no pandas version: astype(str) turns a missing value into   *)
(* the text "nan" before 3.0 and keeps it missing from 3.0 on (str dtype). *)
(***************************************************************************)
NaN == [t |-> "nan"]
StrCell(chars) == [t |-> "str", s |-> chars]
IntCell(n) == [t |-> "int", n |-> n]

\* pd.DataFrame: column labels, index labels, and one record per row
DataFrame(columns, index, records) == [columns |-> columns, index |-> index, rows |-> records]

Raised(exc) == [ok |-> FALSE, exc |-> exc]

Ok(df) == [ok |-> TRUE, df |-> df]

NotRun == [ok |-> FALSE, exc |-> "not run"]

LowerCase == <<"a", "b", "c", "d", "e", "f", "g", "h", "i", "j", "k", "l", "m",
               "n", "o", "p", "q", "r", "s", "t", "u", "v", "w", "x", "y", "z">>

UpperCase == <<"A", "B", "C", "D", "E", "F", "G", "H", "I", "J", "K", "L", "M",
               "N", "O", "P", "Q", "R", "S", "T", "U", "V", "W", "X", "Y", "Z">>

Digits == <<"0", "1", "2", "3", "4", "5", "6", "7", "8", "9">>

Whitespace == {" ", "\t"}

\* str.upper() on one character
UpperChar(c) ==
    IF \E i \in 1..Len(LowerCase) : LowerCase[i] = c
    THEN UpperCase[CHOOSE i \in 1..Len(LowerCase) : LowerCase[i] = c]
    ELSE c

IsDigit(c) == \E i \in 1..Len(Digits) : Digits[i] = c

DigitValue(c) == (CHOOSE i \in 1..Len(Digits) : Digits[i] = c) - 1

RECURSIVE IntToChars(_)
\* str(n) for n >= 0
IntToChars(n) ==
    IF n < 10 THEN <<Digits[n + 1]>>
    ELSE IntToChars(n \div 10) \o <<Digits[(n % 10) + 1]>>

RECURSIVE CharsToInt(_, _)
\* int of a digit string, most significant digit first
CharsToInt(chars, acc) ==
    IF chars = <<>> THEN acc
    ELSE CharsToInt(Tail(chars), 10 * acc + DigitValue(Head(chars)))

\* Series.astype(str) on one cell
AsTypeStr(cell) ==
    CASE cell.t = "nan" -> IF str_dtype THEN NaN ELSE StrCell(<<"n", "a", "n">>)
      [] cell.t = "str" -> cell
      [] cell.t = "int" -> StrCell(IntToChars(cell.n))

\* str.strip(): leading and trailing whitespace removed
RECURSIVE LStrip(_)
LStrip(chars) ==
    IF chars /= <<>> /\ Head(chars) \in Whitespace THEN LStrip(Tail(chars)) ELSE chars

RECURSIVE RStrip(_)
RStrip(chars) ==
    IF chars /= <<>> /\ chars[Len(chars)] \in Whitespace
    THEN RStrip(SubSeq(chars, 1, Len(chars) - 1))
    ELSE chars

Strip(chars) == RStrip(LStrip(chars))

\* crosswalk.py 8-15, on one cell: astype(str), upper, drop all whitespace,
\* strip; the .str methods leave a missing value missing
normalize_intldes(cell) ==
    IF AsTypeStr(cell) = NaN THEN NaN
    ELSE
    LET text == AsTypeStr(cell).s
        upper == [i \in 1..Len(text) |-> UpperChar(text[i])]
        nospace == SelectSeq(upper, LAMBDA c : c \notin Whitespace)
    IN StrCell(Strip(nospace))

\* pd.to_numeric(errors="coerce").astype("Int64") on one cell
to_numeric(cell) ==
    CASE cell.t = "int" -> cell
      [] cell.t = "nan" -> NaN
      [] cell.t = "str" ->
            IF Strip(cell.s) /= <<>> /\ \A i \in 1..Len(Strip(cell.s)) : IsDigit(Strip(cell.s)[i])
            THEN IntCell(CharsToInt(Strip(cell.s), 0))
            ELSE NaN

RECURSIVE Positions(_, _)
\* the positions from i on at which a sequence of flags is TRUE, in order
Positions(flags, i) ==
    IF i > Len(flags) THEN <<>>
    ELSE (IF flags[i] THEN <<i>> ELSE <<>>) \o Positions(flags, i + 1)

\* the rows at the given positions
Take(seq, positions) == [k \in 1..Len(positions) |-> seq[positions[k]]]

\* a row with one more (or replaced) column
WithColumn(row, col, cell) ==
    [c \in DOMAIN row \cup {col} |-> IF c = col THEN cell ELSE row[c]]

\* a row restricted to some columns
Project(row, cols) == [c \in cols |-> row[c]]

\* a row with column old relabelled new
Rename(row, old, new) ==
    [c \in (DOMAIN row \ {old}) \cup {new} |-> IF c = new THEN row[old] ELSE row[c]]

\* line 28: the fixed projection the crosswalk keeps
CrosswalkColumns == {"INTLDES", "norad_id", "SATNAME", "COUNTRY", "LAUNCH", "DECAY"}

\* crosswalk.py 18-28
build_satcat_crosswalk(catalog) ==
    IF "INTLDES" \notin catalog.columns \/ "NORAD_CAT_ID" \notin catalog.columns
    THEN Raised("ValueError")
    ELSE
    LET normalized == [i \in 1..Len(catalog.rows) |->
                         WithColumn(catalog.rows[i], "INTLDES",
                                    normalize_intldes(catalog.rows[i]["INTLDES"]))]
        kept == Positions([i \in 1..Len(normalized) |->
                              /\ normalized[i]["INTLDES"] /= NaN
                              /\ normalized[i]["NORAD_CAT_ID"] /= NaN], 1)
        renamed == [k \in 1..Len(kept) |->
                      Rename(normalized[kept[k]], "NORAD_CAT_ID", "norad_id")]
        numeric == [k \in 1..Len(kept) |->
                      WithColumn(renamed[k], "norad_id", to_numeric(renamed[k]["norad_id"]))]
        columns == (catalog.columns \ {"NORAD_CAT_ID"}) \cup {"norad_id"}
    IN IF ~(CrosswalkColumns \subseteq columns)
       THEN Raised("KeyError")
       ELSE Ok(DataFrame(CrosswalkColumns, Take(catalog.index, kept),
                         [k \in 1..Len(kept) |-> Project(numeric[k], CrosswalkColumns)]))

RECURSIVE Flatten(_)
\* the concatenation of a sequence of sequences
Flatten(seqs) == IF seqs = <<>> THEN <<>> ELSE Head(seqs) \o Flatten(Tail(seqs))

\* DataFrame.merge(left, right, left_on, right_on, how="inner"): the variant join
\* that keeps only the left rows with a match
MergeInner(left, right, left_on, right_on) ==
    LET joined(l) ==
            LET hits == SelectSeq(right.rows, LAMBDA r : r[right_on] = l[left_on])
            IN [k \in 1..Len(hits) |->
                  [c \in left.columns \cup right.columns |->
                     IF c \in left.columns THEN l[c] ELSE hits[k][c]]]
        records == Flatten([i \in 1..Len(left.rows) |-> joined(left.rows[i])])
    IN DataFrame(left.columns \cup right.columns, [i \in 1..Len(records) |-> i - 1], records)

\* DataFrame.merge(left, right, left_on, right_on, how="left"): left order kept,
\* one output row per match, one row with the right columns missing when none
MergeLeft(left, right, left_on, right_on) ==
    LET joined(l) ==
            LET hits == SelectSeq(right.rows, LAMBDA r : r[right_on] = l[left_on])
            IN IF hits = <<>>
               THEN << [c \in left.columns \cup right.columns |->
                          IF c \in left.columns THEN l[c] ELSE NaN] >>
               ELSE [k \in 1..Len(hits) |->
                       [c \in left.columns \cup right.columns |->
                          IF c \in left.columns THEN l[c] ELSE hits[k][c]]]
        records == Flatten([i \in 1..Len(left.rows) |-> joined(left.rows[i])])
    IN DataFrame(left.columns \cup right.columns, [i \in 1..Len(records) |-> i - 1], records)

unoosa_intldes_col == "international_designator"

\* crosswalk.py 31-51
merge_unoosa_with_crosswalk(unoosa, crosswalk) ==
    IF unoosa_intldes_col \notin unoosa.columns
    THEN Raised("ValueError")
    ELSE
    LET df == DataFrame(unoosa.columns \cup {"intldes"}, unoosa.index,
                        [i \in 1..Len(unoosa.rows) |->
                           WithColumn(unoosa.rows[i], "intldes",
                                      normalize_intldes(unoosa.rows[i][unoosa_intldes_col]))])
        m == MergeLeft(df, crosswalk, "intldes", "INTLDES")
        columns == ((m.columns \ {"INTLDES"}) \ {"SATNAME"}) \cup {"satcat_satname"}
    IN Ok(DataFrame(columns, m.index,
                    [i \in 1..Len(m.rows) |->
                       Rename(Project(m.rows[i], m.columns \ {"INTLDES"}),
                              "SATNAME", "satcat_satname")]))

(***************************************************************************)
(* Crosswalk build and merge on bounded tables                             *)
(***************************************************************************)
\* rows of the catalog table and of the external table
MaxRows == 2

CatalogColumns == {"INTLDES", "NORAD_CAT_ID", "SATNAME", "COUNTRY", "LAUNCH", "DECAY"}

CatalogColumnSets ==
    { CatalogColumns,
      CatalogColumns \cup {"OBJECT_TYPE"},
      {"INTLDES", "NORAD_CAT_ID"},
      CatalogColumns \ {"DECAY"},
      CatalogColumns \ {"INTLDES"},
      CatalogColumns \ {"NORAD_CAT_ID"} }

\* (designator, identifier) of a catalog row: two spellings of one designator, a
\* numeric string, a missing designator, a missing and a non-numeric identifier
CatalogKeys ==
    { <<StrCell(<<"9", "8", "a">>), IntCell(25544)>>,
      <<StrCell(<<" ", "9", "8", " ", "A">>), StrCell(<<"4", "3", "0", "1", "3">>)>>,
      <<NaN, IntCell(43013)>>,
      <<StrCell(<<"0", "1", "b">>), NaN>>,
      <<StrCell(<<"0", "1", "b">>), StrCell(<<"x">>)>> }

CatalogRow(columns, key) ==
    [c \in columns |->
        CASE c = "INTLDES" -> key[1]
          [] c = "NORAD_CAT_ID" -> key[2]
          [] OTHER -> StrCell(<<"m">>)]

RangeIndex(n) == [i \in 1..n |-> i - 1]

\* pd.read_csv of a catalog file
Catalogs ==
    { DataFrame(columns, RangeIndex(Len(keys)),
                [i \in 1..Len(keys) |-> CatalogRow(columns, keys[i])]) :
        columns \in CatalogColumnSets,
        keys \in UNION {[1..n -> CatalogKeys] : n \in 0..MaxRows} }

ExternalColumnSets == {{"international_designator", "object_name"}, {"object_name"}}

\* designator of an external row: in the catalog, not in it, missing
ExternalKeys ==
    { StrCell(<<"9", "8", " ", "a">>), StrCell(<<"7", "7", "z">>), NaN }

ExternalRow(columns, key) ==
    [c \in columns |->
        IF c = "international_designator" THEN key ELSE StrCell(<<"o">>)]

Externals ==
    { DataFrame(columns, RangeIndex(Len(keys)),
                [i \in 1..Len(keys) |-> ExternalRow(columns, keys[i])]) :
        columns \in ExternalColumnSets,
        keys \in UNION {[1..n -> ExternalKeys] : n \in 0..MaxRows} }

EmptyFrame == DataFrame({}, <<>>, <<>>)

XwalkIdle ==
    /\ xpc = "none"
    /\ str_dtype = FALSE
    /\ satcat_df = EmptyFrame
    /\ unoosa_df = EmptyFrame
    /\ satcat_xwalk = NotRun
    /\ merged = NotRun

XwalkInit ==
    /\ xpc = "start"
    /\ str_dtype \in BOOLEAN
    /\ satcat_df \in Catalogs
    /\ unoosa_df \in Externals
    /\ satcat_xwalk = NotRun
    /\ merged = NotRun

\* enrich_unoosa.py 24: satcat_xwalk = build_satcat_crosswalk(satcat_df)
BuildCrosswalk ==
    /\ xpc = "start"
    /\ satcat_xwalk' = build_satcat_crosswalk(satcat_df)
    /\ xpc' = IF satcat_xwalk'.ok THEN "built" ELSE "failed"
    /\ UNCHANGED <<str_dtype, satcat_df, unoosa_df, merged>>

\* enrich_unoosa.py 25: merged = merge_unoosa_with_crosswalk(unoosa_df, satcat_xwalk)
MergeCrosswalk ==
    /\ xpc = "built"
    /\ merged' = merge_unoosa_with_crosswalk(unoosa_df, satcat_xwalk.df)
    /\ xpc' = IF merged'.ok THEN "merged" ELSE "failed"
    /\ UNCHANGED <<str_dtype, satcat_df, unoosa_df, satcat_xwalk>>

(***************************************************************************)
(* tle_parse.py.  A str is a sequence of lines, a line a sequence of        *)
(* characters or character groups.  Floats are kept by class: "pos",       *)
(* "zero", "neg", "nan", "real" (a finite float of either sign) and        *)
(* "complex" (what Python's ** gives for a negative base and a fractional  *)
(* exponent).                                                              *)
(***************************************************************************)
\* lines a two-line text is made of
MaxLines == 3

NoResult == [none |-> TRUE]

\* a call that returned v
Returned(v) == [raised |-> FALSE, value |-> v]

\* a call that raised exc
Raise(exc) == [raised |-> TRUE, exc |-> exc]

Line1 == <<"1 25544U 98067A   24001.50000000  .00016717  00000-0  10270-3 0  9005">>

Line1Padded == <<" ">> \o Line1 \o <<" ", "\t">>

\* line 2 with mean motion 15.5, 0.0 and -15.5 in columns 53-63
Line2 == <<"2 25544  51.6400 208.9163 0001000  69.9862  25.2906 15.50000000    12">>

Line2ZeroMotion == <<"2 25544  51.6400 208.9163 0001000  69.9862  25.2906  0.00000000    12">>

Line2NegativeMotion == <<"2 25544  51.6400 208.9163 0001000  69.9862  25.2906 -15.5000000    12">>

Lines ==
    { Line1, Line1Padded, Line2, Line2ZeroMotion, Line2NegativeMotion,
      <<"single line">>, <<" ", " ">>, <<>> }

\* what enrich hands to parse_tle_fields: None, a float NaN, a number, any text
TleInputs ==
    {JNull, NaN, JNum(0)}
    \cup {JStr(lines) : lines \in UNION {[1..n -> Lines] : n \in 0..MaxLines}}

NotCalled == [called |-> FALSE]

ParserRaised == [called |-> TRUE, raised |-> TRUE]

Satrec(no_kozai) == [called |-> TRUE, raised |-> FALSE, no_kozai |-> no_kozai]

\* line 24: what Satrec.twoline2rv(l1, l2) of the sgp4 package can do.  The
\* pure-Python parser raises ValueError on lines that are not in TLE format
\* and may raise while initialising a degenerate element set; the compiled
\* parser scans the columns without validating and returns the record, with
\* zeros where nothing was scanned.  The epoch of a returned record (two-digit
\* year, day of year) is always within datetime's range.
twoline2rv(l1, l2) ==
    IF l1 = Line1 /\ l2 = Line2 THEN {Satrec("pos")}
    ELSE IF l1 = Line1 /\ l2 = Line2ZeroMotion THEN {Satrec("zero"), ParserRaised}
    ELSE IF l1 = Line1 /\ l2 = Line2NegativeMotion THEN {Satrec("neg"), ParserRaised}
    ELSE {Satrec("zero"), ParserRaised}

\* line 18: the stripped non-blank lines of the text
NonBlankLines(text) ==
    LET stripped == [i \in 1..Len(text) |-> Strip(text[i])]
    IN SelectSeq(stripped, LAMBDA ln : ln /= <<>>)

\* lines 15-20: the input reaches the parser
ReachesParser(input) ==
    /\ input.t = "str"
    /\ input.s /= <<>>
    /\ Len(NonBlankLines(input.s)) >= 2

\* lines 33-36: no_kozai * 1440.0 / (2.0 * pi) keeps the class
MeanMotion(no_kozai) == no_kozai

\* lines 40-44: mu ** (1/3) / n ** (2/3); only the division by 0.0 raises (and
\* is caught, giving nan); a negative n gives a complex number, not an exception
SemiMajorAxis(n) ==
    CASE n = "pos"  -> "pos"
      [] n = "zero" -> "nan"
      [] n = "neg"  -> "complex"
      [] n = "nan"  -> "nan"

\* lines 47-52: a * (1 -+ ecc) - 6378.137; nothing raises
Altitude(a) ==
    CASE a = "pos"     -> "real"
      [] a = "nan"     -> "nan"
      [] a = "complex" -> "complex"

\* lines 62-64: 1440.0 / n when n is neither 0.0 nor nan
Period(n) == IF n \in {"zero", "nan"} THEN "nan" ELSE IF n = "pos" THEN "pos" ELSE "neg"

EmptyDict == <<>>

\* lines 54-69: the dict, built outside any try; float() of a complex raises
Features(s) ==
    LET n == MeanMotion(s.no_kozai)
        a == SemiMajorAxis(n)
    IN IF a = "complex" \/ Altitude(a) = "complex"
       THEN Raise("TypeError")
       ELSE Returned(
            [f \in {"tle_epoch", "inclination_deg", "raan_deg", "argp_deg",
                    "mean_anomaly_deg", "eccentricity", "mean_motion_rev_per_day",
                    "period_min", "semi_major_axis_km", "perigee_km", "apogee_km"} |->
                CASE f = "mean_motion_rev_per_day" -> n
                  [] f = "period_min" -> Period(n)
                  [] f = "semi_major_axis_km" -> a
                  [] f \in {"perigee_km", "apogee_km"} -> Altitude(a)
                  [] OTHER -> "real"])

\* tle_parse.py 10-69, given what the parser does when it is called
parse_tle_fields(input, parsed) ==
    IF ~ReachesParser(input) THEN Returned(EmptyDict)
    ELSE IF ~parsed.called \/ parsed.raised THEN Returned(EmptyDict)
    ELSE Features(parsed)

\* the outcomes of the parser call parse_tle_fields makes on this input
ParserOutcomes(input) ==
    IF ReachesParser(input)
    THEN twoline2rv(NonBlankLines(input.s)[1], NonBlankLines(input.s)[2])
    ELSE {NotCalled}

TleInit ==
    /\ tpc = "start"
    /\ tle_one_line \in TleInputs
    /\ sat = NotCalled
    /\ feats = NoResult

ParseTleFields ==
    /\ tpc = "start"
    /\ \E parsed \in ParserOutcomes(tle_one_line) :
        /\ sat' = parsed
        /\ feats' = parse_tle_fields(tle_one_line, parsed)
    /\ tpc' = "done"
    /\ UNCHANGED tle_one_line

(***************************************************************************)
(* The tracking service and the cache directory, as the client sees them   *)
(***************************************************************************)
\* get_tle calls one run of the client spec makes
MaxCalls == 3

Ids == {25544, 43013}

TleGood == <<Line1, Line2>>

PayloadISS ==
    JObj(<< <<"info", JObj(<< <<"satname", JStr(<< <<"ISS">> >>)>>,
                              <<"transactionscount", JNum(1)>> >>)>>,
            <<"tle", JStr(TleGood)>> >>)

\* the service knows the object and has no element set for it
PayloadNoTle ==
    JObj(<< <<"info", JObj(<< <<"satname", JNull>>,
                              <<"transactionscount", JNum(2)>> >>)>>,
            <<"tle", JStr(<<>>)>> >>)

Payloads == {PayloadISS, PayloadNoTle}

\* the JSON body the service sends with a non-success status
PayloadError == JObj(<< <<"error", JStr(<< <<"Service Unavailable">> >>)>> >>)

\* a file cut short while it was written, and an empty file
Truncated(text) == SubSeq(text, 1, Len(text) - 1)

CorruptTexts == {Truncated(Dumps(PayloadISS)), <<>>}

CacheTexts == {Dumps(p) : p \in Payloads} \cup CorruptTexts

\* every cache directory: any subset of the ids has a file, each with any text
CacheDirs == UNION {[S -> CacheTexts] : S \in SUBSET Ids}

\* what session.get can do: raise, or deliver a response
NetOutcomes ==
    {[kind |-> "exception", status |-> 0, body |-> <<>>]}
    \cup {[kind |-> "response", status |-> 200, body |-> b] :
            b \in {Dumps(p) : p \in Payloads} \cup {Truncated(Dumps(PayloadNoTle))}}
    \cup {[kind |-> "response", status |-> 503, body |-> Dumps(PayloadError)]}

NoResponse == [kind |-> "none", status |-> 0, body |-> <<>>]

(***************************************************************************)
(* N2YOClient.get_tle under tenacity's @retry                              *)
(***************************************************************************)
PoliteDelayMs == 250

WaitMultiplier == 1

WaitMin == 1

WaitMax == 60

StopAfterAttempt == 5

Max(a, b) == IF a >= b THEN a ELSE b

Min(a, b) == IF a <= b THEN a ELSE b

\* tenacity's default when @retry is given no wait: wait_none()
wait_none(n) == 0

\* a backoff that starts at 2^1: the exponent taken from the attempt number itself
wait_exponential_from_two(n) ==
    Max(Max(0, WaitMin), Min(WaitMultiplier * 2 ^ n, WaitMax))

\* tenacity.wait_exponential(multiplier=1, min=1, max=60), in seconds, after
\* attempt number n failed: multiplier * 2^(n-1) clamped to [min, max]
wait_exponential(n) ==
    Max(Max(0, WaitMin), Min(WaitMultiplier * 2 ^ (n - 1), WaitMax))

\* tenacity.stop_after_attempt(5)
stop_after_attempt(n) == n >= StopAfterAttempt

\* a fetch that never looks at the status
RaisesForStatusNever(status) == FALSE

\* resp.raise_for_status(): raises HTTPError for 4xx and 5xx
RaisesForStatus(status) == status >= 400 /\ status < 600

\* a client that never looks into the cache
CacheNeverUsable(c, nid) == FALSE

\* a client that takes any existing file for an entry
CacheUsableIfExists(c, nid) == nid \in DOMAIN c

\* lines 51-56: the entry exists and json.loads accepts it
CacheUsable(c, nid) == nid \in DOMAIN c /\ Loads(c[nid]).ok

\* line 66: cache_path.write_text(json.dumps(data))
CacheWrite(c, nid, data) ==
    [i \in DOMAIN c \cup {nid} |-> IF i = nid THEN Dumps(data) ELSE c[i]]

\* lines 59-61: the exception the fetch raises on outcome o, "" when it succeeds
FetchError(o) ==
    IF o.kind = "exception" THEN "ConnectionError"
    ELSE IF RaisesForStatus(o.status) THEN "HTTPError"
    ELSE IF ~Loads(o.body).ok THEN "JSONDecodeError"
    ELSE ""

PoliteSleep == [kind |-> "polite", ms |-> PoliteDelayMs]

BackoffSleep(n) == [kind |-> "backoff", ms |-> 1000 * wait_exponential(n)]

\* tenacity raises RetryError(last_attempt) when it stops (reraise is not set)
RetryError(e) == [raised |-> TRUE, exc |-> "RetryError", last_attempt |-> e]

NoGap == [sleeps |-> <<>>, after |-> "none"]

\* what separates the request being issued from the previous live request: the
\* sleeps since then, and how that request ended (a failed request followed by
\* another of the same call was retried; followed by another call's, it was final)
Gap ==
    [sleeps |-> sinceRequest,
     after |-> IF resp.kind = "none" THEN "none"
               ELSE IF FetchError(resp) = "" THEN "success"
               ELSE IF callRequests = 0 THEN "final failure"
               ELSE "retried failure"]

\* line 36 of enrich_unoosa.py, or any caller: client.get_tle(nid)
BeginCall(nid) ==
    /\ norad_id' = nid
    /\ attempt_number' = 1
    /\ pc' = "attempt"
    /\ calls' = calls + 1
    /\ callRequests' = 0
    /\ callSleeps' = <<>>
    /\ callErrors' = <<>>
    /\ cacheAtCall' = cache
    /\ UNCHANGED <<cache, resp, result, requests, fetched, sinceRequest, gapBefore>>

\* lines 50-53: an attempt that finds a usable entry returns it
AttemptCacheHit ==
    /\ pc = "attempt"
    /\ CacheUsable(cache, norad_id)
    /\ result' = Returned(Loads(cache[norad_id]).val)
    /\ pc' = "returned"
    /\ UNCHANGED <<cache, norad_id, attempt_number, resp, calls, requests,
                   callRequests, callSleeps, callErrors, cacheAtCall, fetched,
                   sinceRequest, gapBefore>>
    /\ UNCHANGED <<xwalkVars, tleVars, enrichVars>>

\* lines 58-67: the request succeeds: sleep, write the entry, return the data
AttemptFetchOk(o) ==
    /\ pc = "attempt"
    /\ ~CacheUsable(cache, norad_id)
    /\ FetchError(o) = ""
    /\ LET data == Loads(o.body).val IN
       /\ resp' = o
       /\ requests' = requests + 1
       /\ callRequests' = callRequests + 1
       /\ gapBefore' = Gap
       /\ callSleeps' = Append(callSleeps, PoliteSleep)
       /\ sinceRequest' = <<PoliteSleep>>
       /\ cache' = CacheWrite(cache, norad_id, data)
       /\ fetched' = [i \in DOMAIN fetched \cup {norad_id} |->
                        IF i = norad_id THEN data ELSE fetched[i]]
       /\ result' = Returned(data)
       /\ pc' = "returned"
    /\ UNCHANGED <<norad_id, attempt_number, calls, callErrors, cacheAtCall>>
    /\ UNCHANGED <<xwalkVars, tleVars, enrichVars>>

\* lines 58-61 raise; tenacity either waits and runs the body again, or stops
AttemptFetchFail(o) ==
    /\ pc = "attempt"
    /\ ~CacheUsable(cache, norad_id)
    /\ FetchError(o) /= ""
    /\ resp' = o
    /\ requests' = requests + 1
    /\ callRequests' = callRequests + 1
    /\ gapBefore' = Gap
    /\ callErrors' = Append(callErrors, FetchError(o))
    /\ IF stop_after_attempt(attempt_number)
       THEN /\ result' = RetryError(FetchError(o))
            /\ pc' = "raised"
            /\ sinceRequest' = <<>>
            /\ UNCHANGED <<attempt_number, callSleeps>>
       ELSE /\ callSleeps' = Append(callSleeps, BackoffSleep(attempt_number))
            /\ sinceRequest' = <<BackoffSleep(attempt_number)>>
            /\ attempt_number' = attempt_number + 1
            /\ UNCHANGED <<result, pc>>
    /\ UNCHANGED <<cache, norad_id, calls, cacheAtCall, fetched>>
    /\ UNCHANGED <<xwalkVars, tleVars, enrichVars>>

(***************************************************************************)
(* The client under any sequence of get_tle calls                          *)
(***************************************************************************)
TleIdle ==
    /\ tpc = "none"
    /\ tle_one_line = JNull
    /\ sat = NotCalled
    /\ feats = NoResult

\* a client constructed over one of the given cache directories
ClientStart(dirs) ==
    /\ cache \in dirs
    /\ pc = "idle"
    /\ norad_id = 0
    /\ attempt_number = 0
    /\ resp = NoResponse
    /\ result = NoResult
    /\ calls = 0
    /\ requests = 0
    /\ callRequests = 0
    /\ callSleeps = <<>>
    /\ callErrors = <<>>
    /\ cacheAtCall = cache
    /\ fetched = <<>>
    /\ sinceRequest = <<>>
    /\ gapBefore = NoGap

ClientInit == ClientStart(CacheDirs)

GetTle(nid) ==
    /\ pc \in {"idle", "returned", "raised"}
    /\ calls < MaxCalls
    /\ BeginCall(nid)
    /\ UNCHANGED <<xwalkVars, tleVars, enrichVars>>

EnrichIdle ==
    /\ epc = "none"
    /\ api_key = TRUE
    /\ unique_ids = <<>>
    /\ rows = <<>>
    /\ tle_df = EmptyFrame
    /\ feat_rows = <<>>
    /\ enriched = NoResult

Init == ClientInit /\ XwalkIdle /\ TleIdle /\ EnrichIdle

Next ==
    \/ \E nid \in Ids : GetTle(nid)
    \/ AttemptCacheHit
    \/ \E o \in NetOutcomes : AttemptFetchOk(o)
    \/ \E o \in NetOutcomes : AttemptFetchFail(o)

Spec == Init /\ [][Next]_vars

(***************************************************************************)
(* Claims about the client                                                 *)
(***************************************************************************)
\* the call in progress (or just ended) started with a parseable entry for its id
WarmAtCall ==
    /\ pc /= "idle"
    /\ norad_id \in DOMAIN cacheAtCall
    /\ Loads(cacheAtCall[norad_id]).ok

\* the call in progress (or just ended) started with an unparseable entry for its id
CorruptAtCall ==
    /\ pc /= "idle"
    /\ norad_id \in DOMAIN cacheAtCall
    /\ ~Loads(cacheAtCall[norad_id]).ok

BackoffsMs == [i \in 1..Len(callSleeps) |-> callSleeps[i].ms]

\* C1: a get_tle call that starts with a parseable cache entry for its id issues
\* no network request, sleeps neither for politeness nor for backoff, is not
\* retried, returns the payload the entry holds (the payload the call that wrote
\* the entry returned), and leaves the cache as it was.
C1_WarmCallServedFromCache ==
    WarmAtCall =>
        /\ callRequests = 0
        /\ callSleeps = <<>>
        /\ callErrors = <<>>
        /\ attempt_number = 1
        /\ cache = cacheAtCall
        /\ pc \in {"attempt", "returned"}
        /\ pc = "returned" =>
            /\ result = Returned(Loads(cacheAtCall[norad_id]).val)
            /\ norad_id \in DOMAIN fetched => result = Returned(fetched[norad_id])

\* a second call for an id whose entry an earlier call of the run wrote has returned
C1_Witness ==
    /\ pc = "returned"
    /\ WarmAtCall
    /\ norad_id \in DOMAIN fetched
    /\ requests > 0
    /\ callRequests = 0

\* C2 as stated: five attempts, then a RetrievalError, with the backoff waits
\* 1s, 2s, 4s, 8s, 16s between them.
C2_AsStated ==
    pc = "raised" =>
        /\ callRequests = 5
        /\ BackoffsMs = <<1000, 2000, 4000, 8000, 16000>>

\* C2 amended: a call whose every attempt fails issues exactly 5 requests; the
\* waits between them are 1s, 2s, 4s, 8s (four waits, none after the fifth
\* failure, so no 16s wait occurs); it then raises the RetryError that carries the
\* fifth attempt's error.  A call whose attempt k succeeds issued k requests, the
\* k-th being the successful one, and waited 1s, 2s, ... between the first k.
C2_RetryPolicy ==
    LET waits == <<1000, 2000, 4000, 8000>> IN
    /\ callRequests <= 5
    /\ pc = "raised" =>
        /\ callRequests = 5
        /\ Len(callErrors) = 5
        /\ BackoffsMs = waits
        /\ \A i \in 1..4 : callSleeps[i].kind = "backoff"
        /\ result = RetryError(callErrors[5])
    /\ (pc = "attempt" /\ ~WarmAtCall) =>
        /\ callRequests = attempt_number - 1
        /\ Len(callErrors) = callRequests
        /\ BackoffsMs = SubSeq(waits, 1, callRequests)
    /\ (pc = "returned" /\ callRequests > 0) =>
        /\ callRequests = Len(callErrors) + 1
        /\ callRequests = attempt_number
        /\ resp.kind = "response" /\ resp.status = 200 /\ Loads(resp.body).ok
        /\ BackoffsMs = SubSeq(waits, 1, callRequests - 1) \o <<PoliteDelayMs>>

\* a call failed after five attempts whose last two errors differ
C2_Witness ==
    /\ pc = "raised"
    /\ Len(callErrors) = 5
    /\ callErrors[5] /= callErrors[4]
    /\ callErrors[5] = "HTTPError"

\* a call returned after its third attempt succeeded
C2_WitnessSuccess ==
    /\ pc = "returned"
    /\ callRequests = 3

\* C5: the cache changes only in a step in which a request for the id of the
\* call returned a success status with a parseable body; then only that id's
\* entry changes, it holds the returned payload, and the call has returned.  A
\* call that raises leaves the whole cache as it was when the call started.
C5_CacheWrittenOnlyOnSuccess ==
    [][ /\ cache' /= cache =>
            /\ requests' = requests + 1
            /\ resp'.kind = "response"
            /\ resp'.status \in 200..299
            /\ Loads(resp'.body).ok
            /\ pc' = "returned"
            /\ result' = Returned(Loads(resp'.body).val)
            /\ DOMAIN cache' = DOMAIN cache \cup {norad_id}
            /\ Loads(cache'[norad_id]) = [ok |-> TRUE, val |-> result'.value]
            /\ \A i \in DOMAIN cache : i /= norad_id => cache'[i] = cache[i]
        /\ (pc' = "returned" /\ callRequests' > 0) =>
            /\ norad_id \in DOMAIN cache'
            /\ Loads(cache'[norad_id]) = [ok |-> TRUE, val |-> result'.value]
        /\ pc' = "raised" => cache' = cacheAtCall'
      ]_vars

\* a call failed after its attempts while another id's entry exists, and an
\* earlier call of the run wrote an entry
C5_Witness ==
    /\ pc = "raised"
    /\ callRequests = 5
    /\ DOMAIN fetched /= {}
    /\ cache = cacheAtCall

\* C6: a call that finds an unparseable entry for its id goes to the network on
\* every attempt, as on a miss; it fails only when all five requests fail; when
\* a request succeeds it returns the fresh payload and the entry holds it.
C6_CorruptEntryIsAMiss ==
    CorruptAtCall =>
        /\ pc = "attempt" => callRequests = attempt_number - 1
        /\ pc = "raised" =>
            /\ callRequests = 5
            /\ result.last_attempt \in {"ConnectionError", "HTTPError", "JSONDecodeError"}
            /\ result.last_attempt = callErrors[5]
        /\ pc = "returned" =>
            /\ callRequests >= 1
            /\ result = Returned(Loads(resp.body).val)
            /\ Loads(cache[norad_id]) = [ok |-> TRUE, val |-> result.value]
            /\ cache[norad_id] /= cacheAtCall[norad_id]

\* a call that found a corrupt entry returned a fresh payload on its second attempt
C6_Witness ==
    /\ CorruptAtCall
    /\ pc = "returned"
    /\ callRequests = 2

(***************************************************************************)
(* The crosswalk stage on every bounded catalog and external table         *)
(***************************************************************************)
ClientIdle ==
    /\ cache = <<>>
    /\ pc = "idle"
    /\ norad_id = 0
    /\ attempt_number = 0
    /\ resp = NoResponse
    /\ result = NoResult
    /\ calls = 0
    /\ requests = 0
    /\ callRequests = 0
    /\ callSleeps = <<>>
    /\ callErrors = <<>>
    /\ cacheAtCall = <<>>
    /\ fetched = <<>>
    /\ sinceRequest = <<>>
    /\ gapBefore = NoGap

InitXwalk == XwalkInit /\ ClientIdle /\ TleIdle /\ EnrichIdle

NextXwalk ==
    \/ BuildCrosswalk /\ UNCHANGED <<clientVars, tleVars, enrichVars>>
    \/ MergeCrosswalk /\ UNCHANGED <<clientVars, tleVars, enrichVars>>

SpecXwalk == InitXwalk /\ [][NextXwalk]_vars

(***************************************************************************)
(* Claims about the crosswalk                                              *)
(***************************************************************************)
Range(seq) == {seq[i] : i \in 1..Len(seq)}

\* the merged rows that carry external row r
MergedRowsOf(r) ==
    {k \in 1..Len(merged.df.rows) : Project(merged.df.rows[k], unoosa_df.columns) = r}

\* the crosswalk rows whose designator is the normalized designator of external row r
CrosswalkMatches(r) ==
    {j \in 1..Len(satcat_xwalk.df.rows) :
        satcat_xwalk.df.rows[j]["INTLDES"] = normalize_intldes(r[unoosa_intldes_col])}

\* C4: in the merged table every external row is present at least as often as
\* in the external table; an external row whose normalized designator is the
\* designator of no crosswalk row is present exactly as often as in the external
\* table, each time with a missing catalog id and missing catalog metadata.
C4_MergeIsLeftJoin ==
    xpc = "merged" =>
        \A i \in 1..Len(unoosa_df.rows) :
            LET r == unoosa_df.rows[i]
                copies == Cardinality({j \in 1..Len(unoosa_df.rows) : unoosa_df.rows[j] = r})
            IN /\ Cardinality(MergedRowsOf(r)) >= copies
               /\ CrosswalkMatches(r) = {} =>
                    /\ Cardinality(MergedRowsOf(r)) = copies
                    /\ \A k \in MergedRowsOf(r) :
                         \A c \in {"norad_id", "satcat_satname", "COUNTRY", "LAUNCH", "DECAY"} :
                            merged.df.rows[k][c] = NaN

\* a merge in which one external row has no match and another has two
C4_Witness ==
    /\ xpc = "merged"
    /\ \E i \in 1..Len(unoosa_df.rows) : CrosswalkMatches(unoosa_df.rows[i]) = {}
    /\ \E i \in 1..Len(unoosa_df.rows) : Cardinality(CrosswalkMatches(unoosa_df.rows[i])) = 2

\* C7: build_satcat_crosswalk fails exactly when INTLDES or NORAD_CAT_ID is
\* absent from the catalog, and succeeds for every catalog that has both,
\* whether or not the optional fields are present.
C7_FailsExactlyOnMissingRequiredField ==
    xpc \in {"built", "merged", "failed"} =>
        (satcat_xwalk.ok <=> {"INTLDES", "NORAD_CAT_ID"} \subseteq satcat_df.columns)

\* C8: the crosswalk holds exactly the catalog rows whose designator and
\* identifier are both present: no crosswalk row comes from a catalog row with a
\* missing designator or a missing identifier, and every other row is retained.
C8_RowsWithMissingKeyAreDropped ==
    satcat_xwalk.ok =>
        \A i \in 1..Len(satcat_df.rows) :
            satcat_df.index[i] \in Range(satcat_xwalk.df.index)
                <=> /\ satcat_df.rows[i]["INTLDES"] /= NaN
                    /\ satcat_df.rows[i]["NORAD_CAT_ID"] /= NaN

(***************************************************************************)
(* parse_tle_fields on every bounded input                                 *)
(***************************************************************************)
InitTle == TleInit /\ ClientIdle /\ XwalkIdle /\ EnrichIdle

NextTle == ParseTleFields /\ UNCHANGED <<clientVars, xwalkVars, enrichVars>>

SpecTle == InitTle /\ [][NextTle]_vars

\* C9: parse_tle_fields never raises, and returns the empty feature set when
\* the input is empty, not a string, has fewer than two non-blank lines, or the
\* parser rejects the two lines.
C9_NeverRaisesEmptyOnMalformed ==
    tpc = "done" =>
        /\ ~feats.raised
        /\ (\/ tle_one_line.t /= "str"
            \/ tle_one_line.s = <<>>
            \/ Len(NonBlankLines(tle_one_line.s)) < 2
            \/ (sat.called /\ sat.raised)) => feats = Returned(EmptyDict)

\* the part of C9 the code keeps: whenever it returns, an input that is empty,
\* not a string, short of two non-blank lines, or rejected by the parser gives
\* the empty feature set, and any other gives all eleven fields.
C9_EmptyOnMalformedWhenItReturns ==
    (tpc = "done" /\ ~feats.raised) =>
        IF \/ tle_one_line.t /= "str"
           \/ tle_one_line.s = <<>>
           \/ Len(NonBlankLines(tle_one_line.s)) < 2
           \/ (sat.called /\ sat.raised)
        THEN feats.value = EmptyDict
        ELSE Cardinality(DOMAIN feats.value) = 11

(***************************************************************************)
(* enrich_unoosa.py: enrich_with_n2yo                                      *)
(***************************************************************************)
FloatCell(class) == [t |-> "float", class |-> class]

RECURSIVE DropDuplicates(_)
\* Series.drop_duplicates(): first occurrences, in order
DropDuplicates(seq) ==
    IF seq = <<>> THEN <<>>
    ELSE LET init == DropDuplicates(SubSeq(seq, 1, Len(seq) - 1))
             last == seq[Len(seq)]
         IN IF \E i \in 1..Len(init) : init[i] = last THEN init ELSE Append(init, last)

\* lines 28-30: merged["norad_id"].dropna().astype("Int64").drop_duplicates().astype(int).tolist()
UniqueIds(df) ==
    LET ids == [i \in 1..Len(df.rows) |-> df.rows[i]["norad_id"]]
        present == SelectSeq(ids, LAMBDA c : c /= NaN)
        unique == DropDuplicates(present)
    IN [i \in 1..Len(unique) |-> unique[i].n]

IsDict(v) == v.t = "obj"

\* Python truth value of a JSON value
Falsy(v) ==
    \/ v.t = "null"
    \/ v.t = "obj" /\ v.items = <<>>
    \/ v.t = "arr" /\ v.elems = <<>>
    \/ v.t = "str" /\ v.s = <<>>
    \/ v.t = "num" /\ v.n = 0

\* dict.get(key, default)
DictGet(d, key, default) ==
    IF \E i \in 1..Len(d.items) : d.items[i][1] = key
    THEN d.items[CHOOSE i \in 1..Len(d.items) : d.items[i][1] = key][2]
    ELSE default

\* line 48: the error marker row; str(exc) kept as the exception's parts
ErrorRow(nid, message) == [norad_id |-> IntCell(nid), error |-> StrCell(message)]

\* lines 35-48: the row appended for nid, given what get_tle returned or raised;
\* .get on a payload or an info that is no dict raises AttributeError, caught
TleRow(nid, res) ==
    IF res.raised THEN ErrorRow(nid, <<res.exc, res.last_attempt>>)
    ELSE IF ~IsDict(res.value) THEN ErrorRow(nid, <<"AttributeError">>)
    ELSE LET got == DictGet(res.value, "info", JObj(<<>>))
             info == IF Falsy(got) THEN JObj(<<>>) ELSE got
         IN IF ~IsDict(info) THEN ErrorRow(nid, <<"AttributeError">>)
            ELSE [norad_id |-> IntCell(nid),
                  n2yo_satname |-> DictGet(info, "satname", JNull),
                  n2yo_txn_last_60min |-> DictGet(info, "transactionscount", JNull),
                  tle_one_line |-> DictGet(res.value, "tle", JNull)]

\* pd.DataFrame(list of dicts): the columns are the keys that occur, a cell is
\* missing where the row's dict has no such key
FrameFromRows(dicts) ==
    LET columns == UNION {DOMAIN dicts[i] : i \in 1..Len(dicts)}
    IN DataFrame(columns, RangeIndex(Len(dicts)),
                 [i \in 1..Len(dicts) |->
                    [c \in columns |-> IF c \in DOMAIN dicts[i] THEN dicts[i][c] ELSE NaN]])

\* line 55: r.get("tle_one_line") on a row of tle_df
RowGet(df, i, col) == IF col \in df.columns THEN df.rows[i][col] ELSE JNull

TleColumns == {"norad_id", "n2yo_satname", "n2yo_txn_last_60min", "tle_one_line"}

\* lines 58-75: tle_feats_df, the two merges back, the freshness column
MergeBack(m, tdf, features) ==
    LET tle_feats_df == FrameFromRows(features) IN
    IF ~(TleColumns \subseteq tdf.columns) \/ "norad_id" \notin tle_feats_df.columns
    THEN Raise("KeyError")
    ELSE
    LET projected == DataFrame(TleColumns, tdf.index,
                               [i \in 1..Len(tdf.rows) |-> Project(tdf.rows[i], TleColumns)])
        first == MergeLeft(m, projected, "norad_id", "norad_id")
        second == MergeLeft(first, tle_feats_df, "norad_id", "norad_id")
        fresh == IF "tle_epoch" \in second.columns
                 THEN DataFrame(second.columns \cup {"tle_age_days"}, second.index,
                        [i \in 1..Len(second.rows) |->
                           WithColumn(second.rows[i], "tle_age_days",
                                      IF second.rows[i]["tle_epoch"] = NaN THEN NaN
                                      ELSE FloatCell("real"))])
                 ELSE second
    IN Returned([enriched |-> fresh, tle_df |-> tdf, tle_feats_df |-> tle_feats_df])

\* catalog rows of one run of the pipeline
EnrichCatalogKeys ==
    { << <<StrCell(<<"9", "8", "a">>), IntCell(25544)>>,
         <<StrCell(<<" ", "9", "8", " ", "A">>), StrCell(<<"4", "3", "0", "1", "3">>)>> >>,
      << <<StrCell(<<"9", "8", "a">>), IntCell(25544)>>,
         <<NaN, IntCell(43013)>> >>,
      << <<StrCell(<<"0", "1", "b">>), NaN>>,
         <<StrCell(<<"0", "1", "b">>), StrCell(<<"x">>)>> >> }

\* catalogs that carry all six fields
EnrichCatalogs ==
    { DataFrame(CatalogColumns, RangeIndex(Len(keys)),
                [i \in 1..Len(keys) |-> CatalogRow(CatalogColumns, keys[i])]) :
        keys \in EnrichCatalogKeys }

\* cache directories a run can start with: a good entry beside an entry that
\* is valid JSON and no object; a corrupt entry beside an absent one
EnrichCacheDirs ==
    { [i \in Ids |-> IF i = 25544 THEN Dumps(PayloadISS) ELSE Dumps(JArr(<<>>))],
      [i \in {25544} |-> Truncated(Dumps(PayloadISS))] }

EnrichInit ==
    /\ epc = "start"
    /\ api_key \in BOOLEAN
    /\ unique_ids = <<>>
    /\ rows = <<>>
    /\ tle_df = EmptyFrame
    /\ feat_rows = <<>>
    /\ enriched = NoResult
    /\ xpc = "start"
    /\ str_dtype \in BOOLEAN
    /\ satcat_df \in EnrichCatalogs
    /\ unoosa_df \in Externals
    /\ satcat_xwalk = NotRun
    /\ merged = NotRun
    /\ ClientStart(EnrichCacheDirs)
    /\ TleIdle

\* lines 23-24
EnrichBuildCrosswalk ==
    /\ epc = "start"
    /\ BuildCrosswalk
    /\ IF satcat_xwalk'.ok
       THEN epc' = "merge" /\ UNCHANGED enriched
       ELSE epc' = "raised" /\ enriched' = Raise(satcat_xwalk'.exc)
    /\ UNCHANGED <<api_key, unique_ids, rows, tle_df, feat_rows>>
    /\ UNCHANGED <<clientVars, tleVars>>

\* line 25
EnrichMerge ==
    /\ epc = "merge"
    /\ MergeCrosswalk
    /\ IF merged'.ok
       THEN epc' = "ids" /\ UNCHANGED enriched
       ELSE epc' = "raised" /\ enriched' = Raise(merged'.exc)
    /\ UNCHANGED <<api_key, unique_ids, rows, tle_df, feat_rows>>
    /\ UNCHANGED <<clientVars, tleVars>>

\* lines 28-33: the ids, then N2YOClient(cache_dir), whose load_api_key raises
\* RuntimeError when the credential is missing
EnrichCreateClient ==
    /\ epc = "ids"
    /\ unique_ids' = UniqueIds(merged.df)
    /\ IF api_key
       THEN epc' = "loop" /\ UNCHANGED enriched
       ELSE epc' = "raised" /\ enriched' = Raise("RuntimeError")
    /\ UNCHANGED <<api_key, rows, tle_df, feat_rows>>
    /\ UNCHANGED <<clientVars, xwalkVars, tleVars>>

\* lines 34-36: the next identifier's call
EnrichGetTle ==
    /\ epc = "loop"
    /\ pc = "idle"
    /\ Len(rows) < Len(unique_ids)
    /\ BeginCall(unique_ids[Len(rows) + 1])
    /\ UNCHANGED <<xwalkVars, tleVars, enrichVars>>

\* lines 37-48: one row per identifier, whatever the call did
EnrichAppendRow ==
    /\ epc = "loop"
    /\ pc \in {"returned", "raised"}
    /\ rows' = Append(rows, TleRow(norad_id, result))
    /\ pc' = "idle"
    /\ UNCHANGED <<cache, norad_id, attempt_number, resp, result, calls, requests,
                   callRequests, callSleeps, callErrors, cacheAtCall, fetched,
                   sinceRequest, gapBefore>>
    /\ UNCHANGED <<epc, api_key, unique_ids, tle_df, feat_rows, enriched>>
    /\ UNCHANGED <<xwalkVars, tleVars>>

\* line 50
EnrichTleDf ==
    /\ epc = "loop"
    /\ pc = "idle"
    /\ Len(rows) = Len(unique_ids)
    /\ tle_df' = FrameFromRows(rows)
    /\ epc' = "parse"
    /\ UNCHANGED <<api_key, unique_ids, rows, feat_rows, enriched>>
    /\ UNCHANGED <<clientVars, xwalkVars, tleVars>>

\* lines 54-57: one row of tle_df parsed into features
EnrichParseRow ==
    /\ epc = "parse"
    /\ Len(feat_rows) < Len(tle_df.rows)
    /\ LET i == Len(feat_rows) + 1
           input == RowGet(tle_df, i, "tle_one_line")
       IN \E parsed \in ParserOutcomes(input) :
            LET f == parse_tle_fields(input, parsed) IN
            IF f.raised
            THEN /\ epc' = "raised"
                 /\ enriched' = f
                 /\ UNCHANGED feat_rows
            ELSE /\ feat_rows' = Append(feat_rows,
                        WithColumn([k \in DOMAIN f.value |-> FloatCell(f.value[k])],
                                   "norad_id", tle_df.rows[i]["norad_id"]))
                 /\ UNCHANGED <<epc, enriched>>
    /\ UNCHANGED <<api_key, unique_ids, rows, tle_df>>
    /\ UNCHANGED <<clientVars, xwalkVars, tleVars>>

\* lines 58-75
EnrichMergeBack ==
    /\ epc = "parse"
    /\ Len(feat_rows) = Len(tle_df.rows)
    /\ enriched' = MergeBack(merged.df, tle_df, feat_rows)
    /\ epc' = IF enriched'.raised THEN "raised" ELSE "done"
    /\ UNCHANGED <<api_key, unique_ids, rows, tle_df, feat_rows>>
    /\ UNCHANGED <<clientVars, xwalkVars, tleVars>>

InitEnrich == EnrichInit

NextEnrich ==
    \/ EnrichBuildCrosswalk
    \/ EnrichMerge
    \/ EnrichCreateClient
    \/ EnrichGetTle
    \/ AttemptCacheHit
    \/ \E o \in NetOutcomes : AttemptFetchOk(o)
    \/ \E o \in NetOutcomes : AttemptFetchFail(o)
    \/ EnrichAppendRow
    \/ EnrichTleDf
    \/ EnrichParseRow
    \/ EnrichMergeBack

SpecEnrich == InitEnrich /\ [][NextEnrich]_vars

(***************************************************************************)
(* Claims about the enrichment run                                         *)
(***************************************************************************)
\* C3: with the required fields in both tables and the credential present,
\* enrich_with_n2yo returns for every combination of retrieval outcomes: it
\* never raises, and an identifier whose retrieval failed leaves one error
\* marker row (catalog id and message) while the loop goes on.
C3_EnrichAlwaysCompletes ==
    ( /\ api_key
      /\ {"INTLDES", "NORAD_CAT_ID"} \subseteq satcat_df.columns
      /\ unoosa_intldes_col \in unoosa_df.columns ) =>
        /\ epc /= "raised"
        /\ (epc = "loop" /\ pc = "idle" /\ rows /= <<>> /\ result.raised) =>
              /\ DOMAIN rows[Len(rows)] = {"norad_id", "error"}
              /\ rows[Len(rows)]["norad_id"] = IntCell(norad_id)
        /\ epc \in {"parse", "done"} => Len(rows) = Len(unique_ids)

\* C10 as stated: every live request of the run but the first comes after a wait
\* since the previous live request: the politeness sleep, or a backoff wait of
\* at least one second.
C10_AsStated ==
    requests >= 2 =>
        \E i \in 1..Len(gapBefore.sleeps) :
            \/ gapBefore.sleeps[i].kind = "polite"
            \/ gapBefore.sleeps[i].kind = "backoff" /\ gapBefore.sleeps[i].ms >= 1000

\* C10 amended: a live request that follows a successful request comes after the
\* politeness sleep; one that follows a failed request of the same call comes
\* after a backoff wait of at least one second; one that follows the fifth,
\* final failed request of an earlier identifier (whose row is an error marker)
\* comes after no wait at all.
C10_WaitBetweenRequests ==
    requests >= 2 =>
        /\ gapBefore.after = "success" =>
              gapBefore.sleeps = <<[kind |-> "polite", ms |-> 250]>>
        /\ gapBefore.after = "retried failure" =>
              /\ Len(gapBefore.sleeps) = 1
              /\ gapBefore.sleeps[1].kind = "backoff"
              /\ gapBefore.sleeps[1].ms >= 1000
        /\ gapBefore.after = "final failure" =>
              /\ gapBefore.sleeps = <<>>
              /\ \E i \in 1..Len(rows) : "error" \in DOMAIN rows[i]
        /\ gapBefore.after /= "none"

\* the second identifier's second request: after a backoff, in a run whose first
\* identifier was fetched live
C10_Witness ==
    /\ epc = "loop"
    /\ Len(rows) = 1
    /\ "error" \notin DOMAIN rows[1]
    /\ callRequests = 2
    /\ requests = 3
    /\ gapBefore.after = "retried failure"

\* the second identifier's first request, right after the first identifier's
\* fifth failure
C10_WitnessBackToBack ==
    /\ epc = "loop"
    /\ Len(rows) = 1
    /\ requests = 6
    /\ gapBefore = [sleeps |-> <<>>, after |-> "final failure"]

====
